---- MODULE Spec2Model ----
(***************************************************************************)
(* Model of tenant_schemas/middleware.py: the tenant resolvers             *)
(* (TenantMiddleware, SuspiciousTenantMiddleware, DefaultTenantMiddleware) *)
(* and the schema-switch gate BaseTenantMiddleware.process_request.        *)
(*                                                                         *)
(* Strings that the code inspects character by character (the request's    *)
(* host, a tenant's domain_url) are sequences of one-character strings.    *)
(* Strings the code only compares as a whole (schema names, exception      *)
(* classes, urlconf names) are TLA+ strings.                               *)
(***************************************************************************)
EXTENDS Integers, Sequences, FiniteSets, TLC

VARIABLES
    directory,            \* rows of TenantModel: the tenant directory
    middleware,           \* the class configured in MIDDLEWARE
    DEFAULT_SCHEMA_NAME,  \* class attribute of DefaultTenantMiddleware
    has_public_urlconf,   \* hasattr(settings, 'PUBLIC_SCHEMA_URLCONF')
    connection,           \* django.db.connection: [schema_name]
    request,              \* the HttpRequest: [host, tenant, urlconf]
    pc,                   \* position of the worker inside process_request
    tenant,               \* process_request's local `tenant`
    hostname,             \* get_tenant's local `hostname`
    e,                    \* the exception bound by `except ... as e`
    raised,               \* the exception that left process_request
    outcome,              \* "none" (running), "ok" (returned), "raised"
    clears,               \* calls of clear_cache() in the current gate run
    cache,                \* ContentType cache: [schema, by] of each entry
    entry_schema,         \* connection.schema_name when the gate was entered
    read,                 \* the cache entry the request's handling read last
    other,                \* schema of a concurrent worker's request, or "idle"
    log                   \* effects of the current gate run, in order

vars == <<directory, middleware, DEFAULT_SCHEMA_NAME, has_public_urlconf,
          connection, request, pc, tenant, hostname, e, raised, outcome,
          clears, cache, entry_schema, read, other, log>>

config == <<directory, middleware, DEFAULT_SCHEMA_NAME, has_public_urlconf>>

----------------------------------------------------------------------------
(* Bounds *)

\* longest host label (the part between the www. prefix and the port)
MaxLabelLen == 2

\* most digits after the colon of a host
MaxPortLen == 1

----------------------------------------------------------------------------
(* Values *)

\* Python's None where a tenant is expected; also "attribute not set"
None == [schema_name |-> "None", domain_url |-> <<>>]

\* no exception
NoExc == [cls |-> "None", line |-> 0]

\* no cache entry
NoEntry == [schema |-> "None", by |-> "None"]

\* DEFAULT_SCHEMA_NAME = None
NoneName == "None"

\* request.urlconf before any middleware touched it
ROOT_URLCONF == "ROOT_URLCONF"

\* the value of settings.PUBLIC_SCHEMA_URLCONF
PUBLIC_SCHEMA_URLCONF == "PUBLIC_SCHEMA_URLCONF"

\* tenant_schemas.utils.get_public_schema_name()
get_public_schema_name == "public"

SchemaNames == {"public", "t1", "t2"}

www == <<"w", "w", "w", ".">>

\* domain_url values a directory row may carry
DomainUrls == {<<"a">>, <<"A">>, www \o <<"a">>}

\* every directory: schema_name unique, domain_url unique
Directories ==
    {d \in SUBSET [schema_name : SchemaNames, domain_url : DomainUrls] :
        \A t1 \in d : \A t2 \in d :
            (t1.schema_name = t2.schema_name \/ t1.domain_url = t2.domain_url)
                => t1 = t2}

Middlewares == {"BaseTenantMiddleware", "CustomTenantMiddleware",
                "TenantMiddleware", "SuspiciousTenantMiddleware",
                "DefaultTenantMiddleware"}

\* the resolvers that look the host up
HostnameMiddlewares == {"TenantMiddleware", "SuspiciousTenantMiddleware",
                        "DefaultTenantMiddleware"}

\* values of DEFAULT_SCHEMA_NAME a subclass of DefaultTenantMiddleware sets
DefaultSchemaNames == {NoneName, "", "t1", "t2"}

----------------------------------------------------------------------------
(* Hosts *)

LabelChars == {"a", "A", "."}

Digits == {"8"}

SeqsUpTo(S, lo, hi) == UNION {[1..n -> S] : n \in lo..hi}

\* "www." in every letter case
WwwPrefixes == {<<x, y, z, ".">> : x \in {"w", "W"}, y \in {"w", "W"}, z \in {"w", "W"}}

Labels == SeqsUpTo(LabelChars, 1, MaxLabelLen)

Ports == {<<>>} \cup {<<":">> \o p : p \in SeqsUpTo(Digits, 0, MaxPortLen)}

\* hosts of the form [www.]label[:port]
Hosts == {p \o l \o s : p \in WwwPrefixes \cup {<<>>}, l \in Labels, s \in Ports}

\* the hosts the gate is exercised with
GateHosts == {<<"a">>, <<"A", ":", "8">>, www \o <<"a">>,
              <<"W", "W", "W", ".", "A">>, <<"a", ".">>}

----------------------------------------------------------------------------
(* Pure functions *)

\* str.lower() on one character
LowerChar(c) == CASE c = "A" -> "a" [] c = "W" -> "w" [] OTHER -> c

\* str.lower()
lower(s) == [i \in 1..Len(s) |-> LowerChar(s[i])]

\* s.split(':')[0]: everything before the first colon
split_colon_0(s) ==
    IF \E i \in 1..Len(s) : s[i] = ":"
    THEN SubSeq(s, 1, (CHOOSE i \in 1..Len(s) :
                          s[i] = ":" /\ \A j \in 1..(i - 1) : s[j] # ":") - 1)
    ELSE s

\* tenant_schemas.utils.remove_www
remove_www(s) ==
    IF Len(s) >= 4 /\ SubSeq(s, 1, 4) = www THEN SubSeq(s, 5, Len(s)) ELSE s

\* hostname_from_request that forgets .lower()
hostname_from_request_nolower(host) == remove_www(split_colon_0(host))

\* TenantMiddleware.hostname_from_request
hostname_from_request(host) == lower(remove_www(split_colon_0(host)))

\* TenantModel.objects.get(domain_url=...): the matching rows
ByDomain(d) == {t \in directory : t.domain_url = d}

\* TenantModel.objects.get(schema_name=...): the matching rows
BySchema(s) == {t \in directory : t.schema_name = s}

\* SuspiciousTenantMiddleware that does not override the exception class
TENANT_NOT_FOUND_EXCEPTION_base == "Http404"

\* TENANT_NOT_FOUND_EXCEPTION of the configured class
TENANT_NOT_FOUND_EXCEPTION ==
    IF middleware = "TenantMiddleware" THEN "Http404" ELSE "DisallowedHost"

\* `if schema_name is None` instead of `if not schema_name`
FallbackSchemaName_isnone ==
    IF DEFAULT_SCHEMA_NAME = NoneName
    THEN get_public_schema_name
    ELSE DEFAULT_SCHEMA_NAME

\* the schema name DefaultTenantMiddleware falls back to
FallbackSchemaName ==
    IF DEFAULT_SCHEMA_NAME \in {NoneName, ""}
    THEN get_public_schema_name
    ELSE DEFAULT_SCHEMA_NAME

----------------------------------------------------------------------------
(* Initial state *)

TypeOK ==
    /\ directory \in Directories
    /\ middleware \in Middlewares
    /\ DEFAULT_SCHEMA_NAME \in DefaultSchemaNames
    /\ has_public_urlconf \in BOOLEAN
    /\ connection.schema_name \in SchemaNames
    /\ request.tenant \in directory \cup {None}
    /\ request.urlconf \in {ROOT_URLCONF, PUBLIC_SCHEMA_URLCONF}
    /\ tenant \in directory \cup {None}
    /\ outcome \in {"none", "ok", "raised"}
    /\ clears \in 0..1
    /\ cache \subseteq [schema : SchemaNames, by : {"self", "other"}]
    /\ read \in [schema : SchemaNames, by : {"self", "other"}] \cup {NoEntry}
    /\ other \in SchemaNames \cup {"idle"}

InitConfig ==
    /\ directory \in Directories
    /\ middleware \in Middlewares
    /\ DEFAULT_SCHEMA_NAME \in
          IF middleware = "DefaultTenantMiddleware"
          THEN DefaultSchemaNames ELSE {NoneName}
    /\ has_public_urlconf \in BOOLEAN

Init ==
    /\ InitConfig
    /\ connection \in [schema_name : SchemaNames]
    /\ request = [host |-> <<>>, tenant |-> None, urlconf |-> ROOT_URLCONF]
    /\ pc = "idle"
    /\ tenant = None
    /\ hostname = <<>>
    /\ e = NoExc
    /\ raised = NoExc
    /\ outcome = "none"
    /\ clears = 0
    /\ cache = {}
    /\ entry_schema = connection.schema_name
    /\ read = NoEntry
    /\ other = "idle"
    /\ log = <<>>

----------------------------------------------------------------------------
(* The request pipeline *)

\* a request arrives on the connection and process_request is entered
NewRequest ==
    /\ pc \in {"idle", "done"}
    /\ \E h \in GateHosts :
          request' = [host |-> h, tenant |-> None, urlconf |-> ROOT_URLCONF]
    /\ pc' = "set_schema_to_public"
    /\ tenant' = None
    /\ hostname' = <<>>
    /\ e' = NoExc
    /\ raised' = NoExc
    /\ outcome' = "none"
    /\ clears' = 0
    /\ entry_schema' = connection.schema_name
    /\ read' = NoEntry
    /\ log' = <<>>
    /\ UNCHANGED <<config, connection, cache, other>>

\* process_request without the switch to the public schema
set_schema_to_public_skip ==
    /\ pc = "set_schema_to_public"
    /\ pc' = "get_tenant"
    /\ UNCHANGED <<config, connection, request, tenant, hostname, e, raised,
                   outcome, clears, cache, entry_schema, read, other, log>>

\* line 39: connection.set_schema_to_public()
set_schema_to_public ==
    /\ pc = "set_schema_to_public"
    /\ connection' = [connection EXCEPT !.schema_name = get_public_schema_name]
    /\ pc' = "get_tenant"
    /\ log' = Append(log, "set_schema_to_public")
    /\ UNCHANGED <<config, request, tenant, hostname, e, raised, outcome,
                   clears, cache,
                   entry_schema, read, other>>

\* an exception leaves process_request
Raise(exc) ==
    /\ raised' = exc
    /\ outcome' = "raised"
    /\ pc' = "done"

\* BaseTenantMiddleware.get_tenant: raise NotImplementedError
get_tenant_Base ==
    /\ pc = "get_tenant"
    /\ middleware = "BaseTenantMiddleware"
    /\ Raise([cls |-> "NotImplementedError", line |-> 33])
    /\ log' = Append(log, "get_tenant")
    /\ UNCHANGED <<config, connection, request, tenant, hostname, e, clears,
                   cache,
                   entry_schema, read, other>>

\* a subclass's get_tenant: any tenant of the directory, or None
get_tenant_Custom ==
    /\ pc = "get_tenant"
    /\ middleware = "CustomTenantMiddleware"
    /\ tenant' \in directory \cup {None}
    /\ pc' = "check_none"
    /\ log' = Append(log, "get_tenant")
    /\ UNCHANGED <<config, connection, request, hostname, e, raised, outcome,
                   clears, cache,
                   entry_schema, read, other>>

\* TenantMiddleware.get_tenant, line 76: hostname = hostname_from_request()
get_tenant_hostname ==
    /\ pc = "get_tenant"
    /\ middleware \in {"TenantMiddleware", "SuspiciousTenantMiddleware",
                       "DefaultTenantMiddleware"}
    /\ hostname' = hostname_from_request(request.host)
    /\ pc' = "lookup_domain"
    /\ log' = Append(log, "get_tenant")
    /\ UNCHANGED <<config, connection, request, tenant, e, raised, outcome,
                   clears, cache,
                   entry_schema, read, other>>

\* the domain lookup returning None when no row matches, as
\* filter(...).first() would
lookup_domain_first ==
    /\ pc = "lookup_domain"
    /\ IF ByDomain(hostname) # {}
       THEN tenant' \in ByDomain(hostname)
       ELSE tenant' = None
    /\ pc' = "check_none"
    /\ log' = Append(log, "lookup_domain")
    /\ UNCHANGED <<config, connection, request, hostname, e, raised, outcome,
                   clears, cache, entry_schema, read, other>>

\* DefaultTenantMiddleware consulting the fallback although the domain
\* lookup found a tenant
lookup_domain_then_fallback ==
    /\ pc = "lookup_domain"
    /\ IF ByDomain(hostname) # {} /\ middleware # "DefaultTenantMiddleware"
       THEN /\ tenant' \in ByDomain(hostname)
            /\ pc' = "check_none"
            /\ UNCHANGED <<e, raised, outcome>>
       ELSE LET exc == [cls |-> TENANT_NOT_FOUND_EXCEPTION, line |-> 82] IN
            IF middleware = "DefaultTenantMiddleware"
            THEN /\ e' = exc
                 /\ pc' = "lookup_schema"
                 /\ UNCHANGED <<tenant, raised, outcome>>
            ELSE /\ Raise(exc)
                 /\ UNCHANGED <<tenant, e>>
    /\ log' = Append(log, "lookup_domain")
    /\ UNCHANGED <<config, connection, request, hostname, clears, cache,
                   entry_schema, read, other>>

\* the domain lookup with its failure replaced by a generic Exception
lookup_domain_wrapped ==
    /\ pc = "lookup_domain"
    /\ IF ByDomain(hostname) # {}
       THEN /\ tenant' \in ByDomain(hostname)
            /\ pc' = "check_none"
            /\ UNCHANGED <<e, raised, outcome>>
       ELSE LET exc == [cls |-> "Exception", line |-> 82] IN
            IF middleware = "DefaultTenantMiddleware"
            THEN /\ e' = exc
                 /\ pc' = "lookup_schema"
                 /\ UNCHANGED <<tenant, raised, outcome>>
            ELSE /\ Raise(exc)
                 /\ UNCHANGED <<tenant, e>>
    /\ log' = Append(log, "lookup_domain")
    /\ UNCHANGED <<config, connection, request, hostname, clears, cache,
                   entry_schema, read, other>>

\* lines 79-83: TenantModel.objects.get(domain_url=hostname)
lookup_domain ==
    /\ pc = "lookup_domain"
    /\ IF ByDomain(hostname) # {}
       THEN /\ tenant' \in ByDomain(hostname)
            /\ pc' = "check_none"
            /\ UNCHANGED <<e, raised, outcome>>
       ELSE LET exc == [cls |-> TENANT_NOT_FOUND_EXCEPTION, line |-> 82] IN
            IF middleware = "DefaultTenantMiddleware"
            THEN /\ e' = exc
                 /\ pc' = "lookup_schema"
                 /\ UNCHANGED <<tenant, raised, outcome>>
            ELSE /\ Raise(exc)
                 /\ UNCHANGED <<tenant, e>>
    /\ log' = Append(log, "lookup_domain")
    /\ UNCHANGED <<config, connection, request, hostname, clears, cache,
                   entry_schema, read, other>>

\* the fallback lookup letting its own DoesNotExist escape
lookup_schema_newexc ==
    /\ pc = "lookup_schema"
    /\ IF BySchema(FallbackSchemaName) # {}
       THEN /\ tenant' \in BySchema(FallbackSchemaName)
            /\ pc' = "check_none"
            /\ UNCHANGED <<raised, outcome>>
       ELSE /\ raised' = [cls |-> "DoesNotExist", line |-> 123]
            /\ outcome' = "raised"
            /\ pc' = "done"
            /\ UNCHANGED tenant
    /\ log' = Append(log, "lookup_schema")
    /\ UNCHANGED <<config, connection, request, hostname, e, clears, cache,
                   entry_schema, read, other>>

\* lines 117-125: TenantModel.objects.get(schema_name=schema_name)
lookup_schema ==
    /\ pc = "lookup_schema"
    /\ IF BySchema(FallbackSchemaName) # {}
       THEN /\ tenant' \in BySchema(FallbackSchemaName)
            /\ pc' = "check_none"
            /\ UNCHANGED <<raised, outcome>>
       ELSE /\ Raise(e)
            /\ UNCHANGED tenant
    /\ log' = Append(log, "lookup_schema")
    /\ UNCHANGED <<config, connection, request, hostname, e, clears, cache,
                   entry_schema, read, other>>

\* `if tenant is None: return` instead of raising
check_none_silent ==
    /\ pc = "check_none"
    /\ IF tenant = None
       THEN /\ outcome' = "ok"
            /\ pc' = "done"
            /\ UNCHANGED raised
       ELSE /\ pc' = "attach"
            /\ UNCHANGED <<raised, outcome>>
    /\ UNCHANGED <<config, connection, request, tenant, hostname, e, clears,
                   cache, entry_schema, read, other, log>>

\* lines 44-45: if tenant is None: raise Exception(...)
check_none ==
    /\ pc = "check_none"
    /\ IF tenant = None
       THEN Raise([cls |-> "Exception", line |-> 45])
       ELSE /\ pc' = "attach"
            /\ UNCHANGED <<raised, outcome>>
    /\ UNCHANGED <<config, connection, request, tenant, hostname, e, clears,
                   cache,
                   entry_schema, read, other, log>>

\* line 47: request.tenant = tenant
attach ==
    /\ pc = "attach"
    /\ request' = [request EXCEPT !.tenant = tenant]
    /\ pc' = "set_tenant"
    /\ log' = Append(log, "attach")
    /\ UNCHANGED <<config, connection, tenant, hostname, e, raised, outcome,
                   clears, cache,
                   entry_schema, read, other>>

\* process_request without the switch to the tenant's schema
set_tenant_stale ==
    /\ pc = "set_tenant"
    /\ pc' = "clear_cache"
    /\ UNCHANGED <<config, connection, request, tenant, hostname, e, raised,
                   outcome, clears, cache, entry_schema, read, other, log>>

\* the cache cleared before the switch as well as after it
set_tenant_clearing ==
    /\ pc = "set_tenant"
    /\ connection' = [connection EXCEPT !.schema_name = request.tenant.schema_name]
    /\ cache' = {}
    /\ pc' = "clear_cache"
    /\ log' = log \o <<"clear_cache", "set_tenant">>
    /\ UNCHANGED <<config, request, tenant, hostname, e, raised, outcome,
                   clears, entry_schema, read, other>>

\* line 48: connection.set_tenant(request.tenant)
set_tenant ==
    /\ pc = "set_tenant"
    /\ connection' = [connection EXCEPT !.schema_name = request.tenant.schema_name]
    /\ pc' = "clear_cache"
    /\ log' = Append(log, "set_tenant")
    /\ UNCHANGED <<config, request, tenant, hostname, e, raised, outcome,
                   clears, cache,
                   entry_schema, read, other>>

\* line 57 left out: the cache is kept
clear_cache_keep ==
    /\ pc = "clear_cache"
    /\ clears' = clears + 1
    /\ pc' = "urlconf"
    /\ log' = Append(log, "clear_cache")
    /\ UNCHANGED <<config, connection, request, tenant, hostname, e, raised,
                   outcome, cache, entry_schema, read, other>>

\* line 57: ContentType.objects.clear_cache()
clear_cache ==
    /\ pc = "clear_cache"
    /\ cache' = {}
    /\ clears' = clears + 1
    /\ pc' = "urlconf"
    /\ log' = Append(log, "clear_cache")
    /\ UNCHANGED <<config, connection, request, tenant, hostname, e, raised,
                   outcome,
                   entry_schema, read, other>>

\* the urlconf override without the test on the tenant's schema
urlconf_always ==
    /\ pc = "urlconf"
    /\ request' =
          IF has_public_urlconf
          THEN [request EXCEPT !.urlconf = PUBLIC_SCHEMA_URLCONF]
          ELSE request
    /\ log' = IF has_public_urlconf THEN Append(log, "urlconf") ELSE log
    /\ outcome' = "ok"
    /\ pc' = "done"
    /\ UNCHANGED <<config, connection, tenant, hostname, e, raised, clears,
                   cache, entry_schema, read, other>>

\* lines 60-61: the public-specific urlconf, then return
urlconf ==
    /\ pc = "urlconf"
    /\ request' =
          IF has_public_urlconf
             /\ request.tenant.schema_name = get_public_schema_name
          THEN [request EXCEPT !.urlconf = PUBLIC_SCHEMA_URLCONF]
          ELSE request
    /\ log' = IF has_public_urlconf
                 /\ request.tenant.schema_name = get_public_schema_name
              THEN Append(log, "urlconf")
              ELSE log
    /\ outcome' = "ok"
    /\ pc' = "done"
    /\ UNCHANGED <<config, connection, tenant, hostname, e, raised, clears,
                   cache,
                   entry_schema, read, other>>

\* downstream handling looks a ContentType up under the active schema: it
\* reads an entry the cache holds, or misses and caches the row of the
\* active schema
View ==
    /\ pc = "done"
    /\ outcome = "ok"
    /\ LET mine == [schema |-> connection.schema_name, by |-> "self"] IN
       \/ /\ \E en \in cache : read' = en
          /\ UNCHANGED cache
       \/ /\ mine \notin cache
          /\ cache' = cache \cup {mine}
          /\ read' = mine
    /\ UNCHANGED <<config, connection, request, pc, tenant, hostname, e,
                   raised, outcome, clears,
                   entry_schema, other, log>>

Next ==
    \/ NewRequest
    \/ set_schema_to_public
    \/ get_tenant_Base
    \/ get_tenant_Custom
    \/ get_tenant_hostname
    \/ lookup_domain
    \/ lookup_schema
    \/ check_none
    \/ attach
    \/ set_tenant
    \/ clear_cache
    \/ urlconf
    \/ View

Spec == Init /\ [][Next]_vars

----------------------------------------------------------------------------
(* The gate run to its end: process_request is synchronous straight-line
   code, so a step that can be taken is taken *)

GateStep ==
    \/ set_schema_to_public
    \/ get_tenant_Base
    \/ get_tenant_Custom
    \/ get_tenant_hostname
    \/ lookup_domain
    \/ lookup_schema
    \/ check_none
    \/ attach
    \/ set_tenant
    \/ clear_cache
    \/ urlconf

SpecLive == Init /\ [][Next]_vars /\ WF_vars(GateStep)

----------------------------------------------------------------------------
(* The gate with collaborators that may raise *)

\* line 48: connection.set_tenant raises; the connection is left as it was
set_tenant_fails ==
    /\ pc = "set_tenant"
    /\ Raise([cls |-> "CollaboratorError", line |-> 48])
    /\ UNCHANGED <<config, connection, request, tenant, hostname, e, clears,
                   cache, entry_schema, read, other, log>>

\* line 57: ContentType.objects.clear_cache raises; the cache is left as it
\* was, and nothing undoes line 48
clear_cache_fails ==
    /\ pc = "clear_cache"
    /\ Raise([cls |-> "CollaboratorError", line |-> 57])
    /\ UNCHANGED <<config, connection, request, tenant, hostname, e, clears,
                   cache, entry_schema, read, other, log>>

NextFault ==
    \/ Next
    \/ set_tenant_fails
    \/ clear_cache_fails

SpecFault == Init /\ [][NextFault]_vars

----------------------------------------------------------------------------
(* Two workers of one process: each has its own connection and request, the
   ContentType cache is one per process.  Of the second worker's request only
   what touches the cache is kept: line 57 of its gate and the lookups of its
   downstream handling. *)

\* the tenant get_tenant of a hostname resolver returns for host h, or None
ResolveHost(h) ==
    LET hn == hostname_from_request(h) IN
    IF ByDomain(hn) # {} THEN CHOOSE T \in ByDomain(hn) : TRUE
    ELSE IF middleware = "DefaultTenantMiddleware"
            /\ BySchema(FallbackSchemaName) # {}
         THEN CHOOSE T \in BySchema(FallbackSchemaName) : TRUE
         ELSE None

\* the tenants a gate run of the configured middleware can end on
ResolvableTenants ==
    CASE middleware \in HostnameMiddlewares ->
             {ResolveHost(h) : h \in GateHosts} \ {None}
      [] middleware = "CustomTenantMiddleware" -> directory
      [] OTHER -> {}

\* the second worker's gate succeeds: line 48 on its own connection, line 57
\* on the shared cache
OtherGate ==
    /\ other = "idle"
    /\ \E T \in ResolvableTenants : other' = T.schema_name
    /\ cache' = {}
    /\ UNCHANGED <<config, connection, request, pc, tenant, hostname, e,
                   raised, outcome, clears, entry_schema, read, log>>

\* the second worker's downstream handling caches a row of its schema
OtherView ==
    /\ other # "idle"
    /\ [schema |-> other, by |-> "other"] \notin cache
    /\ cache' = cache \cup {[schema |-> other, by |-> "other"]}
    /\ UNCHANGED <<config, connection, request, pc, tenant, hostname, e,
                   raised, outcome, clears, entry_schema, read, other, log>>

\* the second worker's request completes
OtherDone ==
    /\ other # "idle"
    /\ other' = "idle"
    /\ UNCHANGED <<config, connection, request, pc, tenant, hostname, e,
                   raised, outcome, clears, cache, entry_schema, read, log>>

NextConcurrent ==
    \/ Next
    \/ OtherGate
    \/ OtherView
    \/ OtherDone

SpecConcurrent == Init /\ [][NextConcurrent]_vars

----------------------------------------------------------------------------
(* The resolvers alone: one get_tenant call per host of Hosts *)

InitResolver ==
    /\ InitConfig
    /\ middleware \in HostnameMiddlewares
    /\ has_public_urlconf = FALSE
    /\ connection = [schema_name |-> get_public_schema_name]
    /\ request \in [host : Hosts, tenant : {None}, urlconf : {ROOT_URLCONF}]
    /\ pc = "get_tenant"
    /\ tenant = None
    /\ hostname = <<>>
    /\ e = NoExc
    /\ raised = NoExc
    /\ outcome = "none"
    /\ clears = 0
    /\ cache = {}
    /\ entry_schema = connection.schema_name
    /\ read = NoEntry
    /\ other = "idle"
    /\ log = <<>>

NextResolver ==
    \/ get_tenant_hostname
    \/ lookup_domain
    \/ lookup_schema

SpecResolver == InitResolver /\ [][NextResolver]_vars

----------------------------------------------------------------------------
(* Properties of the gate *)

\* process_request returned normally
GateReturned == pc = "done" /\ outcome = "ok"

\* process_request was left by an exception
GateRaised == pc = "done" /\ outcome = "raised"

\* C1: whenever process_request returns normally, the connection's schema is
\* the schema_name of the tenant get_tenant returned, request.tenant is that
\* tenant and is not None, and clear_cache() ran exactly once in the run.
C1_SuccessfulGate ==
    GateReturned =>
        /\ tenant # None
        /\ request.tenant = tenant
        /\ connection.schema_name = tenant.schema_name
        /\ clears = 1

\* a gate run that returned with a tenant other than the public one, on a
\* connection that was left on yet another schema
C1_Witness ==
    /\ GateReturned
    /\ tenant.schema_name = "t1"
    /\ entry_schema = "t2"
    /\ clears = 1

\* C2: the connection is on the public schema whenever a directory lookup
\* (by domain_url, or by schema_name in DefaultTenantMiddleware) is about to
\* run, whatever schema the connection was entered with; and from the return
\* of a successful gate run until the next run it is on the tenant's schema.
C2_SchemaDuringAndAfter ==
    /\ pc \in {"lookup_domain", "lookup_schema"}
          => connection.schema_name = get_public_schema_name
    /\ GateReturned => connection.schema_name = request.tenant.schema_name

\* the fallback lookup runs on a connection an earlier request left on t1
C2_Witness ==
    /\ pc = "lookup_schema"
    /\ entry_schema = "t1"
    /\ connection.schema_name = get_public_schema_name

\* C3: once the gate of a request has run, successfully or not, the
\* connection is on the public schema or on the schema of the tenant
\* resolved for this request, never on a schema left by an earlier request.
C3_NoLeftoverSchema ==
    pc = "done" =>
        \/ connection.schema_name = get_public_schema_name
        \/ /\ outcome = "ok"
           /\ request.tenant # None
           /\ connection.schema_name = request.tenant.schema_name

\* a failing gate run on a connection an earlier request left on t2
C3_Witness ==
    /\ GateRaised
    /\ entry_schema = "t2"
    /\ connection.schema_name = get_public_schema_name

\* C4: when get_tenant returned None the gate raises Exception at once and
\* does nothing else: request.tenant stays unset, the connection stays on
\* the schema it was on (public), the cache is not cleared and
\* request.urlconf is not overridden.
C4_NullTenant ==
    /\ [][(pc = "check_none" /\ tenant = None) =>
            /\ pc' = "done"
            /\ outcome' = "raised"
            /\ raised' = [cls |-> "Exception", line |-> 45]
            /\ request' = request
            /\ connection' = connection
            /\ clears' = clears
            /\ cache' = cache]_vars
    /\ []((pc = "done" /\ tenant = None /\ middleware = "CustomTenantMiddleware") =>
            /\ outcome = "raised"
            /\ raised.cls = "Exception"
            /\ request.tenant = None
            /\ request.urlconf = ROOT_URLCONF
            /\ connection.schema_name = get_public_schema_name
            /\ clears = 0)

\* a custom resolver returned None on a connection left on t1
C4_Witness ==
    /\ GateRaised
    /\ middleware = "CustomTenantMiddleware"
    /\ tenant = None
    /\ raised.cls = "Exception"
    /\ entry_schema = "t1"

----------------------------------------------------------------------------
(* Properties of the resolvers *)

\* the domain lookup of the current get_tenant call is over
DomainLookupDone == pc \in {"lookup_schema", "check_none", "done"}

\* get_tenant is over: it returned (check_none) or raised (done)
GetTenantDone == pc \in {"check_none", "done"}

\* host h is domain_url d up to letter case, with an optional :port
HostIs(h, d) == lower(split_colon_0(h)) = lower(d)

\* d starts with "www." in some letter case
HasWww(d) == Len(d) >= 4 /\ lower(SubSeq(d, 1, 4)) = www

\* d is a bare lowercase host: no capitals, no www. prefix, no colon
Plain(d) ==
    /\ lower(d) = d
    /\ ~HasWww(d)
    /\ \A i \in 1..Len(d) : d[i] # ":"

\* C5 as stated: for every tenant T of the directory, TenantMiddleware
\* resolves a host equal to T.domain_url up to letter case, with an optional
\* :port, to T.
C5_Original ==
    (middleware = "TenantMiddleware" /\ GetTenantDone) =>
        \A T \in directory :
            HostIs(request.host, T.domain_url) => tenant = T

\* C5 amended: for every tenant T whose domain_url is a bare lowercase host
\* (no capitals, no www. prefix, no port), TenantMiddleware resolves a host
\* equal to T.domain_url up to letter case, with an optional :port, to T.
C5_ResolvesPlainDomain ==
    (middleware = "TenantMiddleware" /\ GetTenantDone) =>
        \A T \in directory :
            (Plain(T.domain_url) /\ HostIs(request.host, T.domain_url))
                => (tenant = T /\ outcome = "none")

\* host A:8 resolved to the tenant whose domain_url is a
C5_Witness ==
    /\ middleware = "TenantMiddleware"
    /\ pc = "check_none"
    /\ request.host = <<"A", ":", "8">>
    /\ tenant.domain_url = <<"a">>
    /\ Cardinality(directory) = 3

\* C6: when the normalised host matches no domain_url, TenantMiddleware
\* raises Http404 and SuspiciousTenantMiddleware raises DisallowedHost;
\* neither returns a tenant or None.
C6_UnknownHost ==
    (/\ middleware \in {"TenantMiddleware", "SuspiciousTenantMiddleware"}
     /\ DomainLookupDone
     /\ \A T \in directory : T.domain_url # hostname)
        => /\ pc = "done"
           /\ outcome = "raised"
           /\ tenant = None
           /\ raised.cls = IF middleware = "TenantMiddleware"
                           THEN "Http404" ELSE "DisallowedHost"

\* SuspiciousTenantMiddleware raised DisallowedHost for a host that only
\* matches a domain_url before normalisation
C6_Witness ==
    /\ middleware = "SuspiciousTenantMiddleware"
    /\ pc = "done"
    /\ raised.cls = "DisallowedHost"
    /\ directory # {}
    /\ \E T \in directory : T.domain_url = request.host

\* C7: DefaultTenantMiddleware on a host that matches no domain_url, with
\* fallback schema name S: when a tenant with schema_name S exists get_tenant
\* returns it, otherwise get_tenant raises the very exception the domain
\* lookup raised (DisallowedHost from line 82), not one of the lookup of S.
C7_FallbackOrOriginalError ==
    (/\ middleware = "DefaultTenantMiddleware"
     /\ GetTenantDone
     /\ \A T \in directory : T.domain_url # hostname)
        => IF \E T \in directory : T.schema_name = FallbackSchemaName
           THEN /\ pc = "check_none"
                /\ outcome = "none"
                /\ tenant \in directory
                /\ tenant.schema_name = FallbackSchemaName
           ELSE /\ pc = "done"
                /\ outcome = "raised"
                /\ tenant = None
                /\ raised = e
                /\ raised = [cls |-> "DisallowedHost", line |-> 82]

\* the fallback t2 is missing from a non-empty directory and the original
\* DisallowedHost left get_tenant
C7_Witness ==
    /\ middleware = "DefaultTenantMiddleware"
    /\ pc = "done"
    /\ DEFAULT_SCHEMA_NAME = "t2"
    /\ directory # {}
    /\ raised = [cls |-> "DisallowedHost", line |-> 82]

\* C8: with DefaultTenantMiddleware, an unknown host falls back to the
\* public schema name when DEFAULT_SCHEMA_NAME is None or empty and to
\* DEFAULT_SCHEMA_NAME otherwise: when a tenant of that name exists the gate
\* returns with request.tenant that tenant and the connection on its schema
\* (the public tenant and the public schema when nothing is configured);
\* a configured name is never replaced by the public name.
C8_DefaultsToPublic ==
    (/\ middleware = "DefaultTenantMiddleware"
     /\ pc = "done"
     /\ \A T \in directory : T.domain_url # hostname)
        => LET S == IF DEFAULT_SCHEMA_NAME = NoneName \/ DEFAULT_SCHEMA_NAME = ""
                    THEN "public" ELSE DEFAULT_SCHEMA_NAME
           IN  IF \E T \in directory : T.schema_name = S
               THEN /\ outcome = "ok"
                    /\ request.tenant \in directory
                    /\ request.tenant.schema_name = S
                    /\ connection.schema_name = S
               ELSE /\ outcome = "raised"
                    /\ request.tenant = None

\* an unknown host served under the public tenant with DEFAULT_SCHEMA_NAME
\* empty, on a connection left on t1
C8_Witness ==
    /\ middleware = "DefaultTenantMiddleware"
    /\ GateReturned
    /\ DEFAULT_SCHEMA_NAME = ""
    /\ \A T \in directory : T.domain_url # hostname
    /\ request.tenant.schema_name = "public"
    /\ connection.schema_name = "public"
    /\ entry_schema = "t1"

\* C9 as stated: for every host with a www. prefix in any letter case and an
\* optional :port, hostname_from_request is the lowercase host without the
\* prefix and without the port.
C9_StripsWwwAnyCase ==
    (pc # "get_tenant" /\ HasWww(request.host)) =>
        hostname = lower(SubSeq(split_colon_0(request.host), 5,
                                Len(split_colon_0(request.host))))

\* C10: request.urlconf is PUBLIC_SCHEMA_URLCONF exactly when the gate
\* returned, settings has PUBLIC_SCHEMA_URLCONF and the resolved tenant's
\* schema_name is the public one; in every other case, failing runs
\* included, it is what the request came with.
C10_UrlconfOverride ==
    /\ request.urlconf = PUBLIC_SCHEMA_URLCONF
          <=> /\ GateReturned
              /\ has_public_urlconf
              /\ request.tenant.schema_name = "public"
    /\ request.urlconf # PUBLIC_SCHEMA_URLCONF
          => request.urlconf = ROOT_URLCONF

\* the override applied for the public tenant
C10_Witness ==
    /\ GateReturned
    /\ request.urlconf = PUBLIC_SCHEMA_URLCONF
    /\ request.tenant.schema_name = "public"

----------------------------------------------------------------------------
(* Failure propagation *)

\* no tenant can be resolved for the request by a hostname resolver
Unresolvable ==
    /\ middleware \in HostnameMiddlewares
    /\ \A T \in directory : T.domain_url # hostname
    /\ middleware = "DefaultTenantMiddleware"
          => \A T \in directory : T.schema_name # FallbackSchemaName

\* C11: when the resolver raises Http404 or DisallowedHost the gate is left
\* by that very exception: request.tenant stays unset, the cache is not
\* cleared, the connection stays on the public schema; and the gate raises
\* its own Exception only when the resolver returned None.
C11_ResolverFailurePropagates ==
    /\ (pc = "done" /\ Unresolvable) =>
          /\ outcome = "raised"
          /\ raised = [cls |-> IF middleware = "TenantMiddleware"
                               THEN "Http404" ELSE "DisallowedHost",
                       line |-> 82]
          /\ request.tenant = None
          /\ clears = 0
          /\ "clear_cache" \notin {log[i] : i \in 1..Len(log)}
          /\ connection.schema_name = get_public_schema_name
    /\ (GateRaised /\ raised.cls = "Exception") =>
          /\ raised.line = 45
          /\ tenant = None
          /\ "get_tenant" \in {log[i] : i \in 1..Len(log)}
          /\ middleware = "CustomTenantMiddleware"

\* Http404 left the gate on a connection an earlier request left on t1,
\* with that request's cache entry still in place
C11_Witness ==
    /\ GateRaised
    /\ raised.cls = "Http404"
    /\ entry_schema = "t1"
    /\ [schema |-> "t1", by |-> "self"] \in cache
    /\ connection.schema_name = get_public_schema_name

----------------------------------------------------------------------------
(* Atomicity of the switch and the invalidation *)

\* the effects the current gate run has had
Effects == {log[i] : i \in 1..Len(log)}

\* C12: no gate run ends, by success or by the failure of any step (a
\* raising set_tenant or clear_cache included), with the connection switched
\* to the tenant's schema and the cache not cleared by that run.
C12_SwitchAndClearAreOneUnit ==
    pc = "done" => ~("set_tenant" \in Effects /\ "clear_cache" \notin Effects)

----------------------------------------------------------------------------
(* The process-wide cache *)

\* C13: with two workers sharing the cache, a request running under its
\* tenant's schema after its gate can see, and read, a cache entry of
\* another schema; every such entry was cached by the concurrent worker
\* after this request's gate cleared the cache, never by this worker.
C13_ForeignEntriesComeFromOtherWorker ==
    GateReturned =>
        \A en \in (cache \cup {read}) \ {NoEntry} :
            en.schema # connection.schema_name => en.by = "other"

\* a request running under t2 has read an entry the concurrent worker
\* cached under t1 after this request's gate cleared the cache
C13_Witness ==
    /\ GateReturned
    /\ clears = 1
    /\ connection.schema_name = "t2"
    /\ request.tenant.schema_name = "t2"
    /\ read = [schema |-> "t1", by |-> "other"]

\* C14: with one worker, the cache is empty when a gate run succeeds and
\* downstream handling fills it under the active schema only, so no
\* request sees or reads an entry cached under another tenant's schema.
C14_NoStaleEntrySequential ==
    /\ pc = "urlconf" => cache = {}
    /\ GateReturned =>
          \A en \in (cache \cup {read}) \ {NoEntry} :
              en.schema = connection.schema_name

\* a request under t2 read its own entry on a connection whose previous
\* request ran under t1
C14_Witness ==
    /\ GateReturned
    /\ entry_schema = "t1"
    /\ connection.schema_name = "t2"
    /\ read = [schema |-> "t2", by |-> "self"]

----------------------------------------------------------------------------
(* Order of the steps *)

\* the effects of the gate itself, the resolver's lookups left out
GateEffects ==
    SelectSeq(log, LAMBDA x : x \notin {"lookup_domain", "lookup_schema"})

\* the override of lines 60-61 applies to the request
OverrideApplies ==
    has_public_urlconf /\ request.tenant.schema_name = "public"

\* C15: a gate run that returns has had these effects, each once and in
\* this order: connection to public, get_tenant called, tenant attached to
\* the request, connection to the tenant's schema, cache cleared, and the
\* urlconf override when it applies.
C15_OrderOfEffects ==
    GateReturned =>
        GateEffects =
            <<"set_schema_to_public", "get_tenant", "attach", "set_tenant",
              "clear_cache">>
            \o (IF OverrideApplies THEN <<"urlconf">> ELSE <<>>)

\* a successful run of DefaultTenantMiddleware through the fallback, with
\* the urlconf override as its sixth effect
C15_Witness ==
    /\ GateReturned
    /\ middleware = "DefaultTenantMiddleware"
    /\ Len(GateEffects) = 6
    /\ Len(log) = 8
    /\ entry_schema = "t1"

\* C16: one get_tenant call of DefaultTenantMiddleware does the domain
\* lookup once; it does the fallback lookup once, after it, exactly when
\* the domain lookup found nothing; a tenant found by the domain lookup is
\* returned as it is even when a fallback tenant exists.
C16_FallbackOnlyAfterMiss ==
    (middleware = "DefaultTenantMiddleware" /\ GetTenantDone) =>
        IF \E T \in directory : T.domain_url = hostname
        THEN /\ log = <<"get_tenant", "lookup_domain">>
             /\ pc = "check_none"
             /\ tenant \in directory
             /\ tenant.domain_url = hostname
             /\ e = NoExc
        ELSE /\ log = <<"get_tenant", "lookup_domain", "lookup_schema">>
             /\ e.line = 82
             /\ \/ pc = "check_none" /\ tenant.schema_name = FallbackSchemaName
                \/ pc = "done" /\ raised = e

\* the domain lookup found t1 while the fallback tenant t2 exists
C16_Witness ==
    /\ middleware = "DefaultTenantMiddleware"
    /\ pc = "check_none"
    /\ DEFAULT_SCHEMA_NAME = "t2"
    /\ tenant.schema_name = "t1"
    /\ \E T \in directory : T.schema_name = "t2"
    /\ log = <<"get_tenant", "lookup_domain">>

----------------------------------------------------------------------------
(* Outcomes *)

\* process_request is running
InGate == pc \notin {"idle", "done"}

\* C17 as stated: every gate run ends, and ends with a populated request,
\* Http404, DisallowedHost or the gate's own Exception, BaseTenantMiddleware
\* used as it is included.
C17_Original ==
    /\ [](pc = "done" =>
            \/ outcome = "ok" /\ request.tenant # None
            \/ outcome = "raised"
               /\ raised.cls \in {"Http404", "DisallowedHost", "Exception"})
    /\ (InGate ~> pc = "done")

\* C17 amended: every gate run ends; with TenantMiddleware,
\* SuspiciousTenantMiddleware, DefaultTenantMiddleware or a subclass whose
\* get_tenant returns a tenant or None it ends with a populated request,
\* Http404, DisallowedHost or the gate's own Exception; with
\* BaseTenantMiddleware used as it is it ends with NotImplementedError.
C17_Outcomes ==
    /\ [](pc = "done" =>
            IF middleware = "BaseTenantMiddleware"
            THEN /\ outcome = "raised"
                 /\ raised = [cls |-> "NotImplementedError", line |-> 33]
                 /\ request.tenant = None
            ELSE \/ /\ outcome = "ok"
                    /\ raised = NoExc
                    /\ request.tenant # None
                 \/ /\ outcome = "raised"
                    /\ request.tenant = None
                    /\ raised \in {[cls |-> "Http404", line |-> 82],
                                   [cls |-> "DisallowedHost", line |-> 82],
                                   [cls |-> "Exception", line |-> 45]})
    /\ (InGate ~> pc = "done")

\* a gate run of BaseTenantMiddleware ended with NotImplementedError
C17_Witness ==
    /\ GateRaised
    /\ middleware = "BaseTenantMiddleware"
    /\ raised.cls = "NotImplementedError"
    /\ log = <<"set_schema_to_public", "get_tenant">>

\* C18: with TenantMiddleware, SuspiciousTenantMiddleware and
\* DefaultTenantMiddleware get_tenant never returns None, so the gate never
\* raises its own Exception: TenantMiddleware fails with Http404 only, the
\* other two with DisallowedHost only.
C18_BuiltInResolversNeverReturnNone ==
    middleware \in HostnameMiddlewares =>
        /\ pc \in {"check_none", "attach", "set_tenant", "clear_cache",
                   "urlconf"} => tenant # None
        /\ GateRaised =>
              /\ raised.cls # "Exception"
              /\ raised.cls = IF middleware = "TenantMiddleware"
                              THEN "Http404" ELSE "DisallowedHost"

\* DefaultTenantMiddleware failed with DisallowedHost on a directory that
\* has tenants, none of them the fallback
C18_Witness ==
    /\ GateRaised
    /\ middleware = "DefaultTenantMiddleware"
    /\ raised.cls = "DisallowedHost"
    /\ Cardinality(directory) = 2
    /\ log = <<"set_schema_to_public", "get_tenant", "lookup_domain",
               "lookup_schema">>

----------------------------------------------------------------------------
(* Independence of the connection's earlier schema *)

\* what get_tenant gives for the request: fixed by the directory, the
\* configuration and the host (for a subclass, by what its get_tenant
\* returned), not by the connection
ExpectedTenant ==
    CASE middleware \in HostnameMiddlewares -> ResolveHost(request.host)
      [] middleware = "CustomTenantMiddleware" -> tenant
      [] OTHER -> None

\* the exception class of a run that resolves no tenant
ExpectedFailure ==
    CASE middleware = "TenantMiddleware" -> "Http404"
      [] middleware \in {"SuspiciousTenantMiddleware",
                         "DefaultTenantMiddleware"} -> "DisallowedHost"
      [] middleware = "CustomTenantMiddleware" -> "Exception"
      [] OTHER -> "NotImplementedError"

\* C19: the end of a gate run is the same whatever schema the connection
\* was entered with: outcome, final schema and request are fixed by the
\* request, the directory and the configuration alone.
C19_EntrySchemaIrrelevant ==
    pc = "done" =>
        \A s \in SchemaNames :
            entry_schema = s =>
                IF ExpectedTenant # None
                THEN /\ outcome = "ok"
                     /\ raised = NoExc
                     /\ request.tenant = ExpectedTenant
                     /\ connection.schema_name = ExpectedTenant.schema_name
                     /\ request.urlconf =
                           IF has_public_urlconf
                              /\ ExpectedTenant.schema_name = "public"
                           THEN PUBLIC_SCHEMA_URLCONF ELSE ROOT_URLCONF
                ELSE /\ outcome = "raised"
                     /\ raised.cls = ExpectedFailure
                     /\ request.tenant = None
                     /\ connection.schema_name = "public"
                     /\ request.urlconf = ROOT_URLCONF

\* a failing run entered on t2 ended on the public schema
C19_Witness ==
    /\ GateRaised
    /\ entry_schema = "t2"
    /\ ExpectedTenant = None
    /\ middleware = "SuspiciousTenantMiddleware"
    /\ connection.schema_name = "public"
    /\ directory # {}

====
